---- MODULE Spec2Model ----
(***************************************************************************)
(* Model of ProxyScraperChecker (src/main.py): the fetch phase, the probe  *)
(* phase under the global semaphore, the summary, sort_proxies and         *)
(* save_proxies.  Text is modelled as TLA+ strings and the conversions     *)
(* (replace, strip, splitlines, split, IPv4Address, int) are computed      *)
(* character by character.                                                 *)
(***************************************************************************)
EXTENDS Integers, Sequences, FiniteSets, TLC

(***************************************************************************)
(* Bounds and configuration                                                *)
(***************************************************************************)
\* max_connections handed to asyncio.Semaphore (config.MAX_CONNECTIONS)
MaxConnections == 2

\* the protocols whose source list is non-empty, in the order of SOURCES
ProtoOrder == <<"http", "socks4">>

Protos == {ProtoOrder[i] : i \in 1..Len(ProtoOrder)}

\* the source URLs of each protocol
SOURCES == [p \in Protos |-> IF p = "http" THEN {"h1", "h2"} ELSE {"s1"}]

SourceIds == UNION {SOURCES[p] : p \in Protos}

ProtoOf(s) == CHOOSE p \in Protos : s \in SOURCES[p]

(***************************************************************************)
(* Text primitives                                                         *)
(***************************************************************************)
Char(s, i) == SubSeq(s, i, i)

Digits == {"0", "1", "2", "3", "4", "5", "6", "7", "8", "9"}

DigitVal(c) ==
  CASE c = "0" -> 0 [] c = "1" -> 1 [] c = "2" -> 2 [] c = "3" -> 3
    [] c = "4" -> 4 [] c = "5" -> 5 [] c = "6" -> 6 [] c = "7" -> 7
    [] c = "8" -> 8 [] c = "9" -> 9

\* the characters str.strip() removes
Whitespace == {" ", "\t", "\n", "\r", "\f"}

\* the line boundaries of str.splitlines() that occur in the modelled bodies
LineBreaks == {"\n", "\r", "\f"}

StartsWith(s, pat) ==
  /\ Len(pat) <= Len(s)
  /\ SubSeq(s, 1, Len(pat)) = pat

RECURSIVE Replace(_, _, _)
\* s.replace(pat, new): every non-overlapping occurrence, left to right
Replace(s, pat, new) ==
  IF Len(s) = 0 THEN s
  ELSE IF StartsWith(s, pat)
       THEN new \o Replace(SubSeq(s, Len(pat) + 1, Len(s)), pat, new)
       ELSE Char(s, 1) \o Replace(SubSeq(s, 2, Len(s)), pat, new)

RECURSIVE LStrip(_)
LStrip(s) ==
  IF Len(s) > 0 /\ Char(s, 1) \in Whitespace
  THEN LStrip(SubSeq(s, 2, Len(s)))
  ELSE s

RECURSIVE RStrip(_)
RStrip(s) ==
  IF Len(s) > 0 /\ Char(s, Len(s)) \in Whitespace
  THEN RStrip(SubSeq(s, 1, Len(s) - 1))
  ELSE s

\* s.strip()
Strip(s) == RStrip(LStrip(s))

RECURSIVE Find(_, _, _)
\* the least index >= i of a character of s that is in set cs, or 0
Find(s, cs, i) ==
  IF i > Len(s) THEN 0
  ELSE IF Char(s, i) \in cs THEN i
  ELSE Find(s, cs, i + 1)

RECURSIVE Split(_, _)
\* s.split(sep) for a one-character sep: always at least one part
Split(s, sep) ==
  LET i == Find(s, {sep}, 1)
  IN IF i = 0 THEN <<s>>
     ELSE <<SubSeq(s, 1, i - 1)>> \o Split(SubSeq(s, i + 1, Len(s)), sep)

RECURSIVE SplitLines(_)
\* s.splitlines(): "\r\n" is one boundary, no empty last line
SplitLines(s) ==
  IF Len(s) = 0 THEN <<>>
  ELSE LET i == Find(s, LineBreaks, 1)
       IN IF i = 0 THEN <<s>>
          ELSE LET j == IF Char(s, i) = "\r" /\ i < Len(s) /\ Char(s, i + 1) = "\n"
                        THEN i + 1 ELSE i
               IN <<SubSeq(s, 1, i - 1)>> \o SplitLines(SubSeq(s, j + 1, Len(s)))

AllDigits(s) == \A i \in 1..Len(s) : Char(s, i) \in Digits

RECURSIVE DecVal(_)
DecVal(s) ==
  IF Len(s) = 0 THEN 0
  ELSE 10 * DecVal(SubSeq(s, 1, Len(s) - 1)) + DigitVal(Char(s, Len(s)))

\* the text int() converts: surrounding whitespace and one sign are allowed
IntBody(s) ==
  LET t == Strip(s)
  IN IF Len(t) > 0 /\ Char(t, 1) \in {"+", "-"} THEN SubSeq(t, 2, Len(t)) ELSE t

\* int(s) does not raise ValueError
IntOk(s) == Len(IntBody(s)) > 0 /\ AllDigits(IntBody(s))

\* int(s)
IntVal(s) ==
  LET t == Strip(s)
  IN IF Len(t) > 0 /\ Char(t, 1) = "-" THEN 0 - DecVal(IntBody(s)) ELSE DecVal(IntBody(s))

\* one octet as IPv4Address accepts it
OctetOk(o) ==
  /\ Len(o) \in 1..3
  /\ AllDigits(o)
  /\ (Len(o) > 1 => Char(o, 1) # "0")
  /\ DecVal(o) <= 255

\* IPv4Address(s) does not raise
IsIPv4(s) ==
  LET parts == Split(s, ".")
  IN /\ Len(parts) = 4
     /\ \A i \in 1..4 : OctetOk(parts[i])

\* proxy.split(":")[0]
HostOf(proxy) == Split(proxy, ":")[1]

(***************************************************************************)
(* Optional values and insertion-ordered dictionaries                      *)
(***************************************************************************)
\* Optional[str]: None is the empty tuple, a value v is <<v>>
None == <<>>

Some(v) == <<v>>

\* a dict is the sequence of its items in insertion order
DictHas(d, k) == \E i \in 1..Len(d) : d[i].addr = k

DictKeys(d) == [i \in 1..Len(d) |-> d[i].addr]

\* d[k]
DictGet(d, k) == d[CHOOSE i \in 1..Len(d) : d[i].addr = k].exit

\* a faulty variant: a list, not a dict: every assignment adds an item
DictSetAppend(d, k, v) == Append(d, [addr |-> k, exit |-> v])

\* d[k] = v: an existing key keeps its position
DictSet(d, k, v) ==
  IF DictHas(d, k)
  THEN [i \in 1..Len(d) |-> IF d[i].addr = k THEN [addr |-> k, exit |-> v] ELSE d[i]]
  ELSE Append(d, [addr |-> k, exit |-> v])

\* a faulty variant: an item is found by its host alone
IsKeyHost(e, k) == HostOf(e.addr) = HostOf(k)

\* the item of key k
IsKey(e, k) == e.addr = k

\* d.pop(k) for a key that is present
DictPop(d, k) == SelectSeq(d, LAMBDA e : ~IsKey(e, k))

(***************************************************************************)
(* The environment: what the sources and the probed proxies answer         *)
(***************************************************************************)
BodyA == "10.1.1.1:80\nbad-entry\nhttp://2.1.1.1:80"

BodyB == " https://2.1.1.1:080 \r\n2.1.1.1:80\n2.1.1.1:80\n1.2.3.4\n256.1.1.1:80"

BodyC == "socks4://1.2.3.4:80/\n\n"

BodyD == "socks4://10.1.1.1:80"

\* the bodies a source may answer with
Bodies(s) ==
  CASE s = "h1" -> {BodyA}
    [] s = "h2" -> {BodyB}
    [] s = "s1" -> {BodyC, BodyD}

\* what session.get / r.text of one source ends in
FetchOutcomes(s) ==
  {[exc |-> TRUE, status |-> 0, text |-> ""], [exc |-> FALSE, status |-> 404, text |-> ""]}
    \cup {[exc |-> FALSE, status |-> 200, text |-> b] : b \in Bodies(s)}

\* the exceptions a tunnel or request raises: errno 24 (EMFILE), errno 111
Excs == {[oserror |-> TRUE, errno |-> 24], [oserror |-> TRUE, errno |-> 111]}

ValueError == [oserror |-> FALSE, errno |-> 0]

\* no exception
NoExc == [oserror |-> FALSE, errno |-> -1]

\* the bodies the IP service answers through a working proxy
ExitBodies(proxy) == {HostOf(proxy) \o "\n", "9.9.9.9\n", "<html>"}

\* ProxyConnector.from_url accepts the URL: host, ":", decimal port, then
\* nothing or a path
UrlOk(proxy) ==
  LET i == Find(proxy, {":"}, 1)
      rest == SubSeq(proxy, i + 1, Len(proxy))
      j == Find(rest, {"/"}, 1)
      port == IF j = 0 THEN rest ELSE SubSeq(rest, 1, j - 1)
  IN /\ i > 1
     /\ Len(port) > 0
     /\ AllDigits(port)

\* what the body of "async with self.sem" ends in for one proxy
ProbeOutcomes(proxy) ==
  IF UrlOk(proxy)
  THEN {[raised |-> FALSE, exc |-> ValueError, text |-> b] : b \in ExitBodies(proxy)}
         \cup {[raised |-> TRUE, exc |-> e, text |-> ""] : e \in Excs}
  ELSE {[raised |-> TRUE, exc |-> ValueError, text |-> ""]}

(***************************************************************************)
(* State                                                                   *)
(***************************************************************************)
VARIABLES
  MMDB,           \* self.MMDB is set (geolocation enabled)
  proxies,        \* self.proxies: protocol -> dict address -> Optional exit
  proxies_count,  \* self.proxies_count
  sem,            \* the value of self.sem
  fetched,        \* source -> "pending", or how its fetch_source ended
  queue,          \* the check_proxy tasks not yet inside "async with self.sem"
  task,           \* check_proxy task <<proto, proxy>> -> its position
  warnings,       \* number of "set MAX_CONNECTIONS to lower value" prints
  table,          \* the rows of the printed summary table
  fs,             \* the four output directories
  phase,          \* the position of ProxyScraperChecker.main
  err,            \* the exception main ended with, or "none"
  text,           \* source -> the body r.text() returned ("" before, or none)
  geocall         \* one call of get_geolocation: its arguments and its result

vars == <<MMDB, proxies, proxies_count, sem, fetched, queue, task, warnings,
          table, fs, phase, err, text, geocall>>

Dirs == <<"proxies", "proxies_anonymous", "proxies_geolocation",
          "proxies_geolocation_anonymous">>

DirSet == {Dirs[i] : i \in 1..Len(Dirs)}

\* a directory: None when absent, else Some(file name -> content)
NoFiles == [f \in {} |-> ""]

\* the working directory before the run: two directories of a previous run
\* with their files, the other two absent
PriorFS ==
  [d \in DirSet |->
     CASE d = "proxies" -> Some([f \in {"http", "socks5"} |-> "9.9.9.9:1\n"])
       [] d = "proxies_geolocation" ->
            Some([f \in {"http"} |-> "9.9.9.9:1::None::None::None\n"])
       [] OTHER -> None]

\* get_geolocation has not been called on its own
NoCall == [ip |-> None, found |-> None, out |-> None]

\* the fields of a new ProxyScraperChecker, nothing fetched yet
Fresh ==
  /\ proxies = [p \in Protos |-> <<>>]
  /\ proxies_count = [p \in Protos |-> 0]
  /\ sem = MaxConnections
  /\ fetched = [s \in SourceIds |-> "pending"]
  /\ queue = <<>>
  /\ task = [t \in {} |-> "queued"]
  /\ warnings = 0
  /\ table = <<>>
  /\ fs = PriorFS
  /\ phase = "fetch"
  /\ err = "none"
  /\ text = [s \in SourceIds |-> ""]

Init ==
  /\ MMDB \in BOOLEAN
  /\ Fresh
  /\ geocall = NoCall

(***************************************************************************)
(* fetch_source and fetch_all_sources                                      *)
(***************************************************************************)
\* the normalisation of one line of a source
Normalize(line, proto) ==
  Strip(Replace(Replace(line, proto \o "://", ""), "https://", ""))

\* a faulty variant: four dot-separated parts pass, whatever they are
LineOkFourParts(proxy) == Len(Split(HostOf(proxy), ".")) = 4

\* IPv4Address(proxy.split(":")[0]) does not raise
LineOk(proxy) == IsIPv4(HostOf(proxy))

RECURSIVE InsertLines(_, _, _)
\* the for loop of fetch_source over text.splitlines()
InsertLines(d, lines, proto) ==
  IF lines = <<>> THEN d
  ELSE LET proxy == Normalize(Head(lines), proto)
       IN InsertLines(IF LineOk(proxy) THEN DictSet(d, proxy, None) ELSE d,
                      Tail(lines), proto)

\* fetch_source on source s when the request ends as out
Fetch(s, out) ==
  /\ phase = "fetch"
  /\ fetched[s] = "pending"
  /\ LET proto == ProtoOf(s)
     IN IF out.exc
        THEN /\ fetched' = [fetched EXCEPT ![s] = "error"]
             /\ UNCHANGED <<proxies, text>>
        ELSE /\ text' = [text EXCEPT ![s] = out.text]
             /\ IF out.status = 200
                THEN /\ fetched' = [fetched EXCEPT ![s] = "ok"]
                     /\ proxies' = [proxies EXCEPT
                          ![proto] = InsertLines(@, SplitLines(out.text), proto)]
                ELSE /\ fetched' = [fetched EXCEPT ![s] = "status"]
                     /\ UNCHANGED proxies
  /\ UNCHANGED <<MMDB, proxies_count, sem, queue, task, warnings, table, fs,
                 phase, err, geocall>>

FetchSource(s) == \E out \in FetchOutcomes(s) : Fetch(s, out)

\* asyncio.gather(*coroutines) of fetch_all_sources has returned
AllFetched == \A s \in SourceIds : fetched[s] # "pending"

\* a faulty variant: the counts are never stored
SnapshotNone(d) == 0

\* len(proxies) as the snapshot loop stores it
Snapshot(d) == Len(d)

\* the tail of fetch_all_sources: the snapshot of the counts
FetchAllDone ==
  /\ phase = "fetch"
  /\ AllFetched
  /\ proxies_count' = [p \in Protos |-> Snapshot(proxies[p])]
  /\ phase' = "fetched"
  /\ UNCHANGED <<MMDB, proxies, sem, fetched, queue, task, warnings, table, fs,
                 err,
                 text, geocall>>

(***************************************************************************)
(* check_all_proxies and check_proxy                                       *)
(***************************************************************************)
\* the coroutines list: one check_proxy per (proto, proxy) of the registry
Coroutines ==
  UNION {{<<p, proxies[p][i].addr>> : i \in 1..Len(proxies[p])} : p \in Protos}

RECURSIVE Perms(_)
\* the orders shuffle() can leave a list of the elements of S in
Perms(S) ==
  IF S = {} THEN {<<>>}
  ELSE UNION {{<<x>> \o q : q \in Perms(S \ {x})} : x \in S}

CheckAllStart ==
  /\ phase = "fetched"
  /\ \E q \in Perms(Coroutines) : queue' = q
  /\ task' = [t \in Coroutines |-> "queued"]
  /\ phase' = "check"
  /\ UNCHANGED <<MMDB, proxies, proxies_count, sem, fetched, warnings, table,
                 fs, err,
                 text, geocall>>

\* a faulty variant: a slot is handed out whatever the value
CanAcquireAlways(v) == TRUE

\* Semaphore.acquire does not have to wait: the value is positive
CanAcquire(v) == v > 0

\* "async with self.sem": the next task in gather order takes a slot
Acquire ==
  /\ phase = "check"
  /\ queue # <<>>
  /\ CanAcquire(sem)
  /\ sem' = sem - 1
  /\ task' = [task EXCEPT ![Head(queue)] = "active"]
  /\ queue' = Tail(queue)
  /\ UNCHANGED <<MMDB, proxies, proxies_count, fetched, warnings, table, fs,
                 phase, err,
                 text, geocall>>

\* the exception check_proxy ends its try block with, or NoExc
ProbeError(out) ==
  IF out.raised THEN out.exc
  ELSE IF IsIPv4(Strip(out.text)) THEN NoExc ELSE ValueError

\* a faulty variant: the slot is not given back
ReleaseLeak(v) == v

\* the value of the semaphore after "async with self.sem" is left
Release(v) == v + 1

\* a faulty variant: every OSError counts, whatever its errno
TooManyOpenFilesAnyErrno(e) == e.oserror

\* isinstance(e, OSError) and e.errno == 24
TooManyOpenFiles(e) == e.oserror /\ e.errno = 24

\* a faulty variant: a failed candidate is kept, not removed
RecordKeepFailed(d, proxy, out) ==
  IF ProbeError(out) = NoExc
  THEN DictSet(d, proxy, Some(Strip(out.text)))
  ELSE d

\* the registry of one protocol after the except / else of check_proxy
Record(d, proxy, out) ==
  IF ProbeError(out) = NoExc
  THEN DictSet(d, proxy, Some(Strip(out.text)))
  ELSE DictPop(d, proxy)

\* a faulty variant: a probe that failed is left running, to be tried again
EndedRetry(out) == IF ProbeError(out) = NoExc THEN "success" ELSE "active"

\* the position a check_proxy task ends in: what its probe raised, if anything
Ended(out) ==
  LET e == ProbeError(out)
  IN IF e = NoExc THEN "success"
     ELSE IF e = [oserror |-> TRUE, errno |-> 24] THEN "emfile" ELSE "failed"

\* the request of an active task ends: the slot is released, the result recorded
Complete(t) ==
  /\ phase = "check"
  /\ t \in DOMAIN task
  /\ task[t] = "active"
  /\ \E out \in ProbeOutcomes(t[2]) :
       /\ sem' = Release(sem)
       /\ warnings' = IF ProbeError(out) # NoExc /\ TooManyOpenFiles(ProbeError(out))
                      THEN warnings + 1 ELSE warnings
       /\ proxies' = [proxies EXCEPT ![t[1]] = Record(@, t[2], out)]
       /\ task' = [task EXCEPT ![t] = Ended(out)]
  /\ UNCHANGED <<MMDB, proxies_count, fetched, queue, table, fs, phase, err,
                 text, geocall>>

\* a faulty variant: check_all_proxies returns once every task has been started
AllCheckedStarted == queue = <<>>

\* asyncio.gather(*coroutines) of check_all_proxies has returned
AllChecked ==
  /\ queue = <<>>
  /\ \A t \in DOMAIN task : task[t] \notin {"queued", "active"}

CheckAllDone ==
  /\ phase = "check"
  /\ AllChecked
  /\ phase' = "checked"
  /\ UNCHANGED <<MMDB, proxies, proxies_count, sem, fetched, queue, task,
                 warnings, table, fs, err,
                 text, geocall>>

(***************************************************************************)
(* main: the summary table                                                 *)
(***************************************************************************)
\* proto.upper()
Upper(p) == CASE p = "http" -> "HTTP" [] p = "socks4" -> "SOCKS4" [] p = "socks5" -> "SOCKS5"

\* working / total * 100 as "{:.1f}" prints it, in tenths of a percent
Percentage(working, total) == (2000 * working + total) \div (2 * total)

\* a faulty variant: the total is counted after the validation
TotalRemaining(p) == Len(proxies[p])

\* total = self.proxies_count[proto]
Total(p) == proxies_count[p]

\* working / total raises ZeroDivisionError for some protocol
DivisionByZero == \E p \in Protos : Total(p) = 0

Summary ==
  /\ phase = "checked"
  /\ IF DivisionByZero
     THEN /\ err' = "ZeroDivisionError"
          /\ phase' = "crashed"
          /\ UNCHANGED table
     ELSE /\ table' = [i \in 1..Len(ProtoOrder) |->
                         LET p == ProtoOrder[i]
                         IN [proto |-> Upper(p),
                             working |-> Len(proxies[p]),
                             percentage |-> Percentage(Len(proxies[p]), Total(p)),
                             total |-> Total(p)]]
          /\ phase' = "summarized"
          /\ UNCHANGED err
  /\ UNCHANGED <<MMDB, proxies, proxies_count, sem, fetched, queue, task,
                 warnings, fs,
                 text, geocall>>

(***************************************************************************)
(* sort_proxies                                                            *)
(***************************************************************************)
\* x[0].replace(":", ".").split(".")
Octets(addr) == Split(Replace(addr, ":", "."), ".")

\* tuple(map(int, octets)) does not raise ValueError
KeyOk(addr) == \A i \in 1..Len(Octets(addr)) : IntOk(Octets(addr)[i])

\* _get_sorting_key
GetSortingKey(addr) == [i \in 1..Len(Octets(addr)) |-> IntVal(Octets(addr)[i])]

RECURSIVE TupleLess(_, _)
\* a < b for tuples of integers
TupleLess(a, b) ==
  IF b = <<>> THEN FALSE
  ELSE IF a = <<>> THEN TRUE
  ELSE IF Head(a) # Head(b) THEN Head(a) < Head(b)
  ELSE TupleLess(Tail(a), Tail(b))

\* the code point order of the characters of an address
CharRank(c) ==
  CASE c = "." -> 0 [] c = "/" -> 1 [] c = ":" -> 12 [] OTHER -> 2 + DigitVal(c)

RECURSIVE StrLess(_, _)
\* a < b for strings
StrLess(a, b) ==
  IF Len(b) = 0 THEN FALSE
  ELSE IF Len(a) = 0 THEN TRUE
  ELSE IF Char(a, 1) # Char(b, 1) THEN CharRank(Char(a, 1)) < CharRank(Char(b, 1))
  ELSE StrLess(SubSeq(a, 2, Len(a)), SubSeq(b, 2, Len(b)))

\* a faulty variant: the items are compared by the text of the address
ItemLessText(x, y) == StrLess(x.addr, y.addr)

\* key(x) < key(y) as sorted() compares two items
ItemLess(x, y) == TupleLess(GetSortingKey(x.addr), GetSortingKey(y.addr))

RECURSIVE InsertSortedUnique(_, _)
\* a faulty variant: an item replaces the item that has the same sorting key
InsertSortedUnique(d, x) ==
  IF d = <<>> THEN <<x>>
  ELSE IF GetSortingKey(x.addr) = GetSortingKey(Head(d).addr) THEN <<x>> \o Tail(d)
  ELSE IF ItemLess(x, Head(d)) THEN <<x>> \o d
  ELSE <<Head(d)>> \o InsertSortedUnique(Tail(d), x)

RECURSIVE InsertSorted(_, _)
\* x inserted behind every item that is not greater than it
InsertSorted(d, x) ==
  IF d = <<>> THEN <<x>>
  ELSE IF ItemLess(x, Head(d)) THEN <<x>> \o d
  ELSE <<Head(d)>> \o InsertSorted(Tail(d), x)

RECURSIVE Sorted(_)
\* dict(sorted(proxies.items(), key=self._get_sorting_key)): a stable sort
Sorted(d) ==
  IF d = <<>> THEN <<>>
  ELSE InsertSorted(Sorted(SubSeq(d, 1, Len(d) - 1)), d[Len(d)])

SortProxies ==
  /\ phase = "summarized"
  /\ IF \A p \in Protos : \A i \in 1..Len(proxies[p]) : KeyOk(proxies[p][i].addr)
     THEN /\ proxies' = [p \in Protos |-> Sorted(proxies[p])]
          /\ phase' = "sorted"
          /\ UNCHANGED err
     ELSE /\ err' = "ValueError"
          /\ phase' = "crashed"
          /\ UNCHANGED proxies
  /\ UNCHANGED <<MMDB, proxies_count, sem, fetched, queue, task, warnings,
                 table, fs,
                 text, geocall>>

(***************************************************************************)
(* get_geolocation and save_proxies                                        *)
(***************************************************************************)
\* reader.get(ip): None, or the record of the address with the English names
\* of its fields (an absent field is None, subdivisions is a list)
ReaderGet(ip) ==
  CASE ip = "9.9.9.9" ->
         Some([country |-> Some("United States"), continent |-> Some("North America"),
               subdivisions |-> <<"California">>, city |-> Some("Berkeley")])
    [] ip = "2.1.1.1" ->
         Some([country |-> None, continent |-> Some("Europe"),
               subdivisions |-> <<>>, city |-> None])
    [] OTHER -> None

\* str() of an optional name inside an f-string
Render(v) == IF v = None THEN "None" ELSE v[1]

\* a faulty variant: no fallback to the continent
CountryOnly(g) == g.country

\* lines 92-98: the country, or when there is none the continent
Country(g) == IF g.country # None THEN g.country ELSE g.continent

\* isinstance(geolocation, dict): a record is <<r>>, None is <<>>, any other
\* value a longer tuple
IsDict(geolocation) == Len(geolocation) = 1

\* get_geolocation(ip, reader) for ip an Optional[str], geolocation being
\* what reader.get(ip) returns when it is called
GetGeolocationOf(ip, geolocation) ==
  IF ip = None \/ ip = Some("") THEN "::None::None::None"
  ELSE IF ~IsDict(geolocation) THEN "::None::None::None"
  ELSE LET g == geolocation[1]
           country == Country(g)
           region == IF g.subdivisions # <<>> THEN Some(g.subdivisions[1]) ELSE None
           city == g.city
       IN "::" \o Render(country) \o "::" \o Render(region) \o "::" \o Render(city)

\* get_geolocation(ip, reader) with the reader of the run
GetGeolocation(ip) ==
  GetGeolocationOf(ip, IF ip = None THEN None ELSE ReaderGet(ip[1]))

\* a faulty variant: the line is written without its newline
AppendToFileNoNewline(f, dir, name, content) ==
  LET files == f[dir][1]
      old == IF name \in DOMAIN files THEN files[name] ELSE ""
  IN [f EXCEPT ![dir] =
        Some([x \in DOMAIN files \cup {name} |->
                IF x = name THEN old \o content ELSE files[x]])]

\* append_to_file(dir/name.txt, content) on the file system f
AppendToFile(f, dir, name, content) ==
  LET files == f[dir][1]
      old == IF name \in DOMAIN files THEN files[name] ELSE ""
  IN [f EXCEPT ![dir] =
        Some([x \in DOMAIN files \cup {name} |->
                IF x = name THEN old \o content \o "\n" ELSE files[x]])]

\* a faulty variant: the exit address is compared with the whole address
IsAnonymousWholeAddress(item) == item.exit # Some(item.addr)

\* exit_node != proxy.split(":")[0]
IsAnonymous(item) == item.exit # Some(HostOf(item.addr))

RECURSIVE WriteItems(_, _, _, _, _)
\* the inner loop over proxies.items(): base file, then the anonymous file
WriteItems(f, items, name, base, geo) ==
  IF items = <<>> THEN f
  ELSE LET item == Head(items)
           line == IF geo THEN item.addr \o GetGeolocation(item.exit) ELSE item.addr
           f1 == AppendToFile(f, base, name, line)
           f2 == IF IsAnonymous(item)
                 THEN AppendToFile(f1, base \o "_anonymous", name, line)
                 ELSE f1
       IN WriteItems(f2, Tail(items), name, base, geo)

RECURSIVE WriteProtos(_, _, _, _)
\* the outer loop over self.proxies.items()
WriteProtos(f, i, base, geo) ==
  IF i > Len(ProtoOrder) THEN f
  ELSE WriteProtos(WriteItems(f, proxies[ProtoOrder[i]], ProtoOrder[i], base, geo),
                   i + 1, base, geo)

\* a faulty variant: only the directories that will be recreated are removed
RemovedToCreate(f) ==
  [d \in DirSet |-> IF d \in {"proxies", "proxies_anonymous"} \/ MMDB
                    THEN None ELSE f[d]]

\* the directories left after the rmtree loop: none of the four
Removed(f) == [d \in DirSet |-> None]

\* dirs_to_create
DirsToCreate == IF MMDB THEN DirSet ELSE {"proxies", "proxies_anonymous"}

\* the mkdir loop
Created(f) == [d \in DirSet |-> IF d \in DirsToCreate THEN Some(NoFiles) ELSE f[d]]

SaveProxies ==
  /\ phase = "sorted"
  /\ LET f0 == Created(Removed(fs))
         f1 == WriteProtos(f0, 1, "proxies", FALSE)
     IN fs' = IF MMDB THEN WriteProtos(f1, 1, "proxies_geolocation", TRUE) ELSE f1
  /\ phase' = "done"
  /\ UNCHANGED <<MMDB, proxies, proxies_count, sem, fetched, queue, task,
                 warnings, table, err,
                 text, geocall>>

Next ==
  \/ \E s \in SourceIds : FetchSource(s)
  \/ FetchAllDone
  \/ CheckAllStart
  \/ Acquire
  \/ \E t \in DOMAIN task : Complete(t)
  \/ CheckAllDone
  \/ Summary
  \/ SortProxies
  \/ SaveProxies

Spec == Init /\ [][Next]_vars

(***************************************************************************)
(* Cancellation: asyncio.run cancels main while gather awaits the probes;  *)
(* gather cancels every check_proxy task.  CancelledError is not an        *)
(* Exception, so the except clause of check_proxy does not run.            *)
(***************************************************************************)
\* the tasks still waiting for a slot end without ever holding one
CancelRun ==
  /\ phase = "check"
  /\ phase' = "cancelling"
  /\ queue' = <<>>
  /\ task' = [t \in DOMAIN task |-> IF task[t] = "queued" THEN "cancelled_waiting" ELSE task[t]]
  /\ UNCHANGED <<MMDB, proxies, proxies_count, sem, fetched, warnings, table,
                 fs, err,
                 text, geocall>>

\* CancelledError leaves "async with self.sem" of an active task
Cancelled(t) ==
  /\ phase = "cancelling"
  /\ t \in DOMAIN task
  /\ task[t] = "active"
  /\ sem' = Release(sem)
  /\ task' = [task EXCEPT ![t] = "cancelled"]
  /\ UNCHANGED <<MMDB, proxies, proxies_count, fetched, queue, warnings, table,
                 fs, phase, err,
                 text, geocall>>

\* main ends with CancelledError once every task has ended
CancelDone ==
  /\ phase = "cancelling"
  /\ AllChecked
  /\ phase' = "cancelled"
  /\ err' = "CancelledError"
  /\ UNCHANGED <<MMDB, proxies, proxies_count, sem, fetched, queue, task,
                 warnings, table, fs,
                 text, geocall>>

NextCancel ==
  \/ Next
  \/ CancelRun
  \/ \E t \in DOMAIN task : Cancelled(t)
  \/ CancelDone

SpecCancel == Init /\ [][NextCancel]_vars

(***************************************************************************)
(* Properties                                                              *)
(***************************************************************************)
\* the check_proxy tasks inside "async with self.sem"
ActiveTasks == {t \in DOMAIN task : task[t] = "active"}

\* the check_proxy tasks that have ended, however they ended
EndedTasks == {t \in DOMAIN task : task[t] \notin {"queued", "active"}}

\* C1: at every moment at most max_connections check_proxy tasks hold a slot
\* of the one semaphore, counted over all protocols together.
C1_ConcurrencyCeiling == Cardinality(ActiveTasks) <= MaxConnections

\* C1 witness: the ceiling is reached by tasks of two protocols while another
\* task waits for a slot.
C1_Witness ==
  /\ Cardinality(ActiveTasks) = MaxConnections
  /\ queue # <<>>
  /\ \E t, u \in ActiveTasks : t[1] # u[1]

\* C2: every slot taken is given back exactly once, whichever way the task
\* ends: the value of the semaphore is always max_connections minus the number
\* of tasks inside it, and it is max_connections again once every task ended.
C2_SlotsReleased ==
  /\ sem = MaxConnections - Cardinality(ActiveTasks)
  /\ (phase \in {"checked", "cancelled"} => sem = MaxConnections)

\* C2 witness: a run whose tasks ended in every way (success, failure, errno
\* 24, cancellation while holding a slot) and whose semaphore is full again.
C2_Witness ==
  /\ phase = "cancelled"
  /\ sem = MaxConnections
  /\ \A st \in {"success", "failed", "emfile", "cancelled"} :
       \E t \in DOMAIN task : task[t] = st

\* C3: no check_proxy task exists before every fetch_source has ended, and
\* sort_proxies / save_proxies have not run before every check_proxy ended.
C3_PhaseOrdering ==
  /\ (DOMAIN task # {} => \A s \in SourceIds : fetched[s] # "pending")
  /\ (phase \in {"sorted", "done"} \/ fs # PriorFS =>
        /\ \A s \in SourceIds : fetched[s] # "pending"
        /\ EndedTasks = DOMAIN task)

\* C3 witness: a finished run that probed candidates and wrote its files.
C3_Witness ==
  /\ phase = "done"
  /\ Cardinality(DOMAIN task) >= 3
  /\ fs # PriorFS

\* C4 (as claimed): whatever the fetches and the probes end in, main never
\* ends with an exception before save_proxies has run.
C4_RunNeverAborts == phase # "crashed"

\* s is an initial part of t
IsPrefix(s, t) == Len(s) <= Len(t) /\ SubSeq(t, 1, Len(s)) = s

\* no address occurs twice among the keys of d
NoDuplicates(d) == \A i, j \in 1..Len(d) : d[i].addr = d[j].addr => i = j

\* the text of addr before its first colon
HostPart(addr) ==
  LET i == Find(addr, {":"}, 1)
  IN IF i = 0 THEN addr ELSE SubSeq(addr, 1, i - 1)

\* a registry as the fetch phase leaves it: no address twice, every outcome
\* pending, every host a valid IPv4 address
FetchedRegistryOk(reg) ==
  \A p \in Protos :
    /\ NoDuplicates(reg[p])
    /\ \A i \in 1..Len(reg[p]) :
         /\ reg[p][i].exit = None
         /\ IsIPv4(HostPart(reg[p][i].addr))

\* C5: during and after fetch_all_sources every protocol holds each address
\* at most once, pending, with a valid IPv4 host; a fetch_source step never
\* changes the items already present (inserting a present address is a no-op).
C5_RegistryDeduplicated ==
  [][/\ (phase' \in {"fetch", "fetched"} => FetchedRegistryOk(proxies'))
     /\ (phase = "fetch" => \A p \in Protos : IsPrefix(proxies[p], proxies'[p]))]_vars

\* C5 witness: both http sources answered; the address they share and the one
\* repeated inside a body are held once.
C5_Witness ==
  /\ phase = "fetched"
  /\ fetched["h1"] = "ok"
  /\ fetched["h2"] = "ok"
  /\ Len(proxies["http"]) = 4

\* C6: from the end of the fetch phase on no protocol holds more items than
\* its snapshot in proxies_count, and no step of the validation adds an item.
C6_MonotonicShrink ==
  [][/\ (phase' # "fetch" => \A p \in Protos : Len(proxies'[p]) <= proxies_count'[p])
     /\ (phase = "check" => \A p \in Protos : Len(proxies'[p]) <= Len(proxies[p]))]_vars

\* C6 witness: the validation is over and a protocol kept some, not all, of
\* its candidates.
C6_Witness ==
  /\ phase = "checked"
  /\ \E p \in Protos : Len(proxies[p]) > 0 /\ Len(proxies[p]) < proxies_count[p]

\* the file dir/name.txt exists
FileExists(dir, name) == fs[dir] # None /\ name \in DOMAIN fs[dir][1]

\* the lines read back from dir/name.txt (no lines when there is no file)
FileLines(dir, name) ==
  IF FileExists(dir, name) THEN SplitLines(fs[dir][1][name]) ELSE <<>>

\* some line of dir/name.txt is the address, or the address and a "::" suffix
Listed(dir, name, addr, geo) ==
  \E i \in 1..Len(FileLines(dir, name)) :
    IF geo THEN StartsWith(FileLines(dir, name)[i], addr \o "::")
    ELSE FileLines(dir, name)[i] = addr

\* the survivor's exit address differs from the host part of its address
Differs(item) == item.exit # None /\ item.exit[1] # HostPart(item.addr)

\* C7: after save_proxies a survivor is in the base file, and in the
\* anonymous file exactly when its exit address differs from its own host; the
\* geolocation pair, written when geolocation is on, follows the same rule.
C7_AnonymousPartition ==
  phase = "done" =>
    \A p \in Protos : \A i \in 1..Len(proxies[p]) :
      LET item == proxies[p][i]
      IN /\ Listed("proxies", p, item.addr, FALSE)
         /\ Listed("proxies_anonymous", p, item.addr, FALSE) <=> Differs(item)
         /\ Len(FileLines("proxies_anonymous", p)) =
              Cardinality({j \in 1..Len(proxies[p]) : Differs(proxies[p][j])})
         /\ MMDB => /\ Listed("proxies_geolocation", p, item.addr, TRUE)
                    /\ Listed("proxies_geolocation_anonymous", p, item.addr, TRUE)
                         <=> Differs(item)
                    /\ Len(FileLines("proxies_geolocation_anonymous", p)) =
                         Cardinality({j \in 1..Len(proxies[p]) : Differs(proxies[p][j])})
         /\ ~MMDB => /\ ~FileExists("proxies_geolocation", p)
                     /\ ~FileExists("proxies_geolocation_anonymous", p)

\* C7 witness: geolocation is on and one protocol has a survivor seen under
\* its own host and a survivor seen under another address.
C7_Witness ==
  /\ phase = "done"
  /\ MMDB
  /\ \E p \in Protos : \E i, j \in 1..Len(proxies[p]) :
       Differs(proxies[p][i]) /\ ~Differs(proxies[p][j])

\* (octet1, octet2, octet3, octet4, port) of an address as integers
IntTuple(addr) ==
  LET host == Split(HostPart(addr), ".")
      port == SubSeq(addr, Len(HostPart(addr)) + 2, Len(addr))
  IN <<DecVal(host[1]), DecVal(host[2]), DecVal(host[3]), DecVal(host[4]),
       DecVal(port)>>

\* the position of address a among the keys of d
Position(d, a) == CHOOSE i \in 1..Len(d) : d[i].addr = a

\* C8: sort_proxies leaves every protocol ordered by the integer tuple: an
\* address with the smaller tuple comes first, and two addresses with equal
\* tuples keep the order they had before.
C8_NumericStableSort ==
  [][phase = "summarized" /\ phase' = "sorted" =>
       \A p \in Protos : \A i, j \in 1..Len(proxies'[p]) :
         LET a == proxies'[p][i].addr
             b == proxies'[p][j].addr
         IN /\ TupleLess(IntTuple(a), IntTuple(b)) => i < j
            /\ (IntTuple(a) = IntTuple(b) /\ i < j) =>
                 Position(proxies[p], a) < Position(proxies[p], b)]_vars

\* C8 witness: the sorted http survivors include 2.1.1.1:80 ahead of
\* 10.1.1.1:80 and the equal-keyed 2.1.1.1:080 ahead of 2.1.1.1:80.
C8_Witness ==
  /\ phase = "sorted"
  /\ DictKeys(proxies["http"]) = <<"2.1.1.1:080", "2.1.1.1:80", "10.1.1.1:80">>

\* C9 (as claimed): after a complete run proxies/{proto}.txt exists for every
\* protocol and its lines are exactly the sorted survivors of the protocol.
C9_FileIsSurvivorList ==
  phase = "done" =>
    \A p \in Protos :
      /\ FileExists("proxies", p)
      /\ FileLines("proxies", p) = DictKeys(proxies[p])

\* C9 (amended): after a complete run the files of proxies/ are those of the
\* protocols with a survivor, the lines of each are exactly the sorted
\* survivors, and a protocol without survivors has no file.
C9_FileIsSurvivorListIfAny ==
  phase = "done" =>
    /\ fs["proxies"] # None
    /\ DOMAIN fs["proxies"][1] = {p \in Protos : proxies[p] # <<>>}
    /\ \A p \in Protos : FileLines("proxies", p) = DictKeys(proxies[p])

\* C9 witness: a complete run in which one protocol has several survivors
\* and another has none.
C9_Witness ==
  /\ phase = "done"
  /\ \E p, q \in Protos : Len(proxies[p]) >= 2 /\ proxies[q] = <<>>

\* the phases in which check_all_proxies has returned normally
AfterValidation == phase \in {"checked", "summarized", "sorted", "done", "crashed"}

\* C10: a task that failed has no item left in the registry, a task that
\* succeeded has its item; once check_all_proxies has returned every item
\* holds an exit address that is a valid IPv4 address, none is pending.
C10_OnlySuccessesRemain ==
  /\ \A t \in DOMAIN task :
       /\ task[t] \in {"failed", "emfile"} => ~DictHas(proxies[t[1]], t[2])
       /\ task[t] = "success" => DictHas(proxies[t[1]], t[2])
  /\ AfterValidation =>
       \A p \in Protos : \A i \in 1..Len(proxies[p]) :
         /\ proxies[p][i].exit # None
         /\ IsIPv4(proxies[p][i].exit[1])

\* C10 witness: the validation is over with a removed candidate and a
\* survivor whose exit address is the trimmed answer of the IP service.
C10_Witness ==
  /\ phase = "checked"
  /\ \E t \in DOMAIN task : task[t] = "failed"
  /\ \E p \in Protos : \E i \in 1..Len(proxies[p]) : proxies[p][i].exit = Some("9.9.9.9")

(***************************************************************************)
(* C11: the reset of the output directories                                *)
(***************************************************************************)
\* the two directories of the geolocation files
GeoDirs == {"proxies_geolocation", "proxies_geolocation_anonymous"}

\* directory d exists and holds nothing but lines of this run's survivors
ThisRunOnly(d) ==
  /\ fs[d] # None
  /\ \A name \in DOMAIN fs[d][1] :
       /\ name \in Protos
       /\ \A i \in 1..Len(FileLines(d, name)) :
            \E k \in 1..Len(proxies[name]) :
              \/ FileLines(d, name)[i] = proxies[name][k].addr
              \/ StartsWith(FileLines(d, name)[i], proxies[name][k].addr \o "::")

\* C11 as stated: with geolocation off, save_proxies leaves the two
\* geolocation directories of an earlier run as they were.
C11_DisabledLeavesGeolocation ==
  phase = "done" /\ ~MMDB => \A d \in GeoDirs : fs[d] = PriorFS[d]

\* C11 amended: save_proxies removes all four directories whatever the
\* setting; with geolocation off only proxies and proxies_anonymous exist
\* afterwards and the geolocation directories of an earlier run are gone, with
\* geolocation on all four exist; a directory that exists holds only lines
\* written by this run.
C11_ResetRemovesAllFour ==
  phase = "done" =>
    \A d \in DirSet :
      IF d \in GeoDirs /\ ~MMDB THEN fs[d] = None ELSE ThisRunOnly(d)

\* C11 witness: geolocation is off, an earlier run left proxies_geolocation,
\* and after save_proxies it is gone while proxies holds a file of this run.
C11_Witness ==
  /\ phase = "done"
  /\ ~MMDB
  /\ PriorFS["proxies_geolocation"] # None
  /\ fs["proxies_geolocation"] = None
  /\ FileExists("proxies", "http")

(***************************************************************************)
(* C12: fetch_source on arbitrary source lines                             *)
(***************************************************************************)
\* the body of the http list of the scenario
ScenarioBody == "1.2.3.4:8080\nbad-entry\nhttp://5.6.7.8:3128"

\* lines a source may hold: plain, with a scheme, padded, with a scheme inside
\* the line, without a port, with an octet out of range, garbage, empty
SampleLines ==
  {"1.2.3.4:8080", "bad-entry", " http://5.6.7.8:3128 ", "https://5.6.7.8:3128",
   "1.2.3.http://4:8080", "5.6.7.8", "256.1.1.1:80", "socks4://1.2.3.4:8080", ""}

\* the bodies a source answers with: the scenario, two lines, one line
SampleBodies(s) ==
  CASE s = "h1" -> {ScenarioBody}
    [] s = "h2" -> {a \o "\n" \o b : a, b \in SampleLines}
    [] s = "s1" -> SampleLines

\* what session.get / r.text of one source ends in, for these bodies
LineOutcomes(s) ==
  {[exc |-> TRUE, status |-> 0, text |-> ""], [exc |-> FALSE, status |-> 404, text |-> ""]}
    \cup {[exc |-> FALSE, status |-> 200, text |-> b] : b \in SampleBodies(s)}

FetchLines(s) == \E out \in LineOutcomes(s) : Fetch(s, out)

NextFetch == \E s \in SourceIds : FetchLines(s)

\* the fetch phase alone, over the sample bodies
SpecFetch == Init /\ [][NextFetch]_vars

\* the line trimmed, one leading scheme of the protocol or "https://" dropped
PrefixRemoved(line, proto) ==
  LET t == Strip(line)
      rest(pat) == SubSeq(t, Len(pat) + 1, Len(t))
  IN Strip(IF StartsWith(t, proto \o "://") THEN rest(proto \o "://")
           ELSE IF StartsWith(t, "https://") THEN rest("https://")
           ELSE t)

RECURSIVE Without(_, _)
\* s with every occurrence of pat dropped, wherever it stands
Without(s, pat) ==
  IF Len(s) = 0 THEN s
  ELSE IF StartsWith(s, pat) THEN Without(SubSeq(s, Len(pat) + 1, Len(s)), pat)
  ELSE Char(s, 1) \o Without(SubSeq(s, 2, Len(s)), pat)

\* the line with every "{proto}://", then every "https://", dropped, trimmed
SchemesRemoved(line, proto) ==
  Strip(Without(Without(line, proto \o "://"), "https://"))

\* the address of a line: with a scheme prefix removed, or with the schemes
\* removed wherever they stand
AddressOf(line, proto, prefix) ==
  IF prefix THEN PrefixRemoved(line, proto) ELSE SchemesRemoved(line, proto)

\* the addresses of the lines of body whose text before the first colon is a
\* valid IPv4 address
Accepted(body, proto, prefix) ==
  {AddressOf(SplitLines(body)[i], proto, prefix) : i \in
     {j \in 1..Len(SplitLines(body)) :
        IsIPv4(HostPart(AddressOf(SplitLines(body)[j], proto, prefix)))}}

\* the keys of registry d as a set
KeySet(d) == {d[i].addr : i \in 1..Len(d)}

\* one fetch_source step from registry reg to reg2 does what the claim says,
\* reading the address of a line with a prefix removed or not
FetchStepOk(reg, reg2, ended, ended2, got, prefix) ==
  \A s \in SourceIds :
    ended[s] = "pending" /\ ended2[s] # "pending" =>
      LET p == ProtoOf(s)
      IN /\ \A q \in Protos \ {p} : reg2[q] = reg[q]
         /\ IF ended2[s] = "ok"
            THEN /\ IsPrefix(reg[p], reg2[p])
                 /\ NoDuplicates(reg2[p])
                 /\ KeySet(reg2[p]) = KeySet(reg[p]) \cup Accepted(got[s], p, prefix)
                 /\ \A i \in Len(reg[p]) + 1..Len(reg2[p]) : reg2[p][i].exit = None
            ELSE reg2[p] = reg[p]

\* C12 as stated: a source answering 200 adds exactly the lines whose text
\* before the first colon, once an optional scheme prefix is removed and the
\* line trimmed, is a valid IPv4 address; a failed or non-200 source adds none.
C12_PrefixRemovedThenValid ==
  [][FetchStepOk(proxies, proxies', fetched, fetched', text', TRUE)]_vars

\* C12 amended: the same, the address of a line being the line with every
\* occurrence of "{proto}://" and of "https://" removed, wherever it stands in
\* the line, and then trimmed.
C12_SchemesRemovedThenValid ==
  [][FetchStepOk(proxies, proxies', fetched, fetched', text', FALSE)]_vars

\* C12 witness: the http list of the scenario yielded exactly its two
\* addresses, the malformed line none.
C12_Witness ==
  /\ fetched = [s \in SourceIds |-> IF s = "h1" THEN "ok" ELSE "error"]
  /\ text["h1"] = ScenarioBody
  /\ DictKeys(proxies["http"]) = <<"1.2.3.4:8080", "5.6.7.8:3128">>

(***************************************************************************)
(* C13: the warning about too many open files                              *)
(***************************************************************************)
\* the tasks whose probe raised OSError with errno 24
EmfileTasks == {t \in DOMAIN task : task[t] = "emfile"}

\* C13: the warning has been printed once for each probe that failed with
\* OSError errno 24 and for no other probe, failed or successful; the candidate
\* of such a probe is removed from the registry like that of any failed probe.
C13_WarningOnlyOnErrno24 ==
  /\ warnings = Cardinality(EmfileTasks)
  /\ \A t \in EmfileTasks : ~DictHas(proxies[t[1]], t[2])

\* C13 witness: one probe failed with errno 24, another failed otherwise,
\* another succeeded, one warning was printed and the run went on to its end.
C13_Witness ==
  /\ phase = "done"
  /\ Cardinality(EmfileTasks) = 1
  /\ warnings = 1
  /\ \E t \in DOMAIN task : task[t] = "failed"
  /\ \E t \in DOMAIN task : task[t] = "success"

(***************************************************************************)
(* C14: get_geolocation on arbitrary lookups                               *)
(***************************************************************************)
\* the exit addresses get_geolocation is called with: none, empty, an address
GeoIps == {None, Some(""), Some("9.9.9.9")}

\* the records a lookup finds: each field present or absent on its own; a
\* field that is present carries its English name, as in GeoLite2-City
GeoRecords ==
  [country : {None, Some("Germany")}, continent : {None, Some("Europe")},
   subdivisions : {<<>>, <<"Hesse">>, <<"Hesse", "Darmstadt">>},
   city : {None, Some("Frankfurt")}]

\* a lookup result that is neither None nor a dict
NotADict == <<"not", "a dict">>

\* what reader.get returns
GeoLookups == {None, NotADict} \cup {Some(r) : r \in GeoRecords}

\* a call of get_geolocation about to be made, on any address and any lookup
InitGeo ==
  /\ MMDB = TRUE
  /\ Fresh
  /\ geocall \in [ip : GeoIps, found : GeoLookups, out : {None}]

\* the call returns
GeoCall ==
  /\ geocall.out = None
  /\ geocall' = [geocall EXCEPT
                   !.out = Some(GetGeolocationOf(geocall.ip, geocall.found))]
  /\ UNCHANGED <<MMDB, proxies, proxies_count, sem, fetched, queue, task,
                 warnings, table, fs, phase, err, text>>

NextGeo == GeoCall

\* get_geolocation alone, over the addresses and lookups above
SpecGeo == InitGeo /\ [][NextGeo]_vars

\* the name of an optional field, "None" when the field is absent
NameOrNone(field) == IF field = None THEN "None" ELSE field[1]

\* the suffix the claim gives for exit address ip and lookup result found
ExpectedSuffix(ip, found) ==
  IF ip \in {None, Some("")} \/ found = None \/ found = NotADict
  THEN "::None::None::None"
  ELSE LET r == found[1]
       IN "::"
          \o (CASE r.country # None -> r.country[1]
                [] r.country = None /\ r.continent # None -> r.continent[1]
                [] OTHER -> "None")
          \o "::"
          \o (IF Len(r.subdivisions) > 0 THEN Head(r.subdivisions) ELSE "None")
          \o "::"
          \o NameOrNone(r.city)

Items(d) == {d[i] : i \in 1..Len(d)}

\* the positions a check_proxy task ends in
Terminal == {"success", "emfile", "failed"}

\* the tasks that end in the step from statuses tk to tk2
Ending(tk, tk2) ==
  {t \in DOMAIN tk : t \in DOMAIN tk2 /\ tk[t] = "active" /\ tk2[t] \in Terminal}

\* one step of a run follows the life of a candidate: created by the fetch
\* phase only, given one task, probed once, never touched afterwards
LifecycleStep(reg, reg2, tk, tk2, ph, ph2) ==
  \* no step outside the fetch phase creates an entry
  /\ ph # "fetch" => \A p \in Protos : KeySet(reg2[p]) \subseteq KeySet(reg[p])
  \* the validation starts with one waiting task for each candidate
  /\ ph = "fetched" /\ ph2 = "check" =>
       /\ DOMAIN tk2 = UNION {{<<p, k>> : k \in KeySet(reg[p])} : p \in Protos}
       /\ \A t \in DOMAIN tk2 : tk2[t] = "queued"
       /\ \A p \in Protos : NoDuplicates(reg[p])
  \* a task goes from waiting to probing to its end, and stays there
  /\ ph = "check" =>
       /\ DOMAIN tk2 = DOMAIN tk
       /\ \A t \in DOMAIN tk :
            \/ tk2[t] = tk[t]
            \/ tk[t] = "queued" /\ tk2[t] = "active"
            \/ tk[t] = "active" /\ tk2[t] \in Terminal
       /\ Cardinality(Ending(tk, tk2)) <= 1
  \* the task that ends makes the one transition of its candidate, from
  \* pending to success or to removed; every other item is left as it is
  /\ ph = "check" =>
       \A p \in Protos :
         LET ends == {t \in Ending(tk, tk2) : t[1] = p}
         IN /\ \A t \in ends :
                 /\ [addr |-> t[2], exit |-> None] \in Items(reg[p])
                 /\ IF tk2[t] = "success"
                    THEN \E i \in 1..Len(reg2[p]) :
                           reg2[p][i].addr = t[2] /\ reg2[p][i].exit # None
                    ELSE t[2] \notin KeySet(reg2[p])
            /\ \A x \in Items(reg[p]) :
                 (\A t \in ends : t[2] # x.addr) => x \in Items(reg2[p])
            /\ \A x \in Items(reg2[p]) :
                 (\A t \in ends : t[2] # x.addr) => x \in Items(reg[p])
  \* once the validation is over the items are only reordered
  /\ ph \in {"checked", "summarized", "sorted", "done", "crashed"} =>
       \A p \in Protos : Items(reg2[p]) = Items(reg[p]) /\ Len(reg2[p]) = Len(reg[p])

\* C15: entries are created only during the fetch phase; every candidate
\* left by the fetch phase gets exactly one check_proxy task, and that task
\* makes exactly one transition of it, pending to success or pending to
\* removed; nothing is inserted again, probed twice or tried again, and after
\* the validation the items and their exit addresses never change.
C15_CandidateLifecycle ==
  [][LifecycleStep(proxies, proxies', task, task', phase, phase')]_vars

\* C15 witness: the run is complete, one candidate succeeded, another was
\* removed, and the survivor holds its exit address.
C15_Witness ==
  /\ phase = "done"
  /\ \E t \in DOMAIN task : task[t] = "failed"
  /\ \E t \in DOMAIN task :
       /\ task[t] = "success"
       /\ [addr |-> t[2], exit |-> Some("9.9.9.9")] \in Items(proxies[t[1]])

(***************************************************************************)
(* C16: the snapshot of the counts                                         *)
(***************************************************************************)
\* the number of check_proxy tasks of protocol p among the tasks tk
Scheduled(tk, p) == Cardinality({t \in DOMAIN tk : t[1] = p})

\* one step of a run treats the snapshot cnt as the claim says
SnapshotStep(cnt, cnt2, reg, tk, tk2, ph, ph2, tbl2) ==
  \* the one step that stores it: every fetch has ended, no probe has started
  /\ cnt2 # cnt => ph = "fetch" /\ ph2 = "fetched" /\ AllFetched /\ DOMAIN tk = {}
  \* it stores the number of candidates of each protocol
  /\ ph = "fetch" /\ ph2 = "fetched" =>
       \A p \in Protos : cnt2[p] = Cardinality(KeySet(reg[p]))
  \* it is the number of probes scheduled, whatever they remove later
  /\ ph2 \notin {"fetch", "fetched"} =>
       \A p \in Protos : cnt2[p] = Scheduled(tk2, p)
  \* the total of the summary is that number
  /\ ph2 = "summarized" =>
       \A i \in 1..Len(ProtoOrder) : tbl2[i].total = Scheduled(tk2, ProtoOrder[i])

\* C16: proxies_count is stored once, when every fetch has ended and before
\* any probe starts, as the number of candidates of each protocol; validation,
\* sorting and writing never change it, and the total shown in the summary is
\* the number of candidates that were scheduled for probing.
C16_SnapshotIndependence ==
  [][SnapshotStep(proxies_count, proxies_count', proxies, task, task', phase,
                  phase', table')]_vars

\* C16 witness: the summary has been made after probes removed candidates,
\* and the total of http is still the number fetched.
C16_Witness ==
  /\ phase = "summarized"
  /\ Len(proxies["http"]) < proxies_count["http"]
  /\ table[1].total = proxies_count["http"]
  /\ table[1].working = Len(proxies["http"])

(***************************************************************************)
(* C17: the form of the registry keys                                      *)
(***************************************************************************)
\* addr is an IPv4 address, one colon and a decimal port, and nothing else
HostPort(addr) ==
  LET parts == Split(addr, ":")
  IN /\ Len(parts) = 2
     /\ IsIPv4(parts[1])
     /\ Len(parts[2]) > 0
     /\ AllDigits(parts[2])
     /\ DecVal(parts[2]) <= 65535

\* C17: in every state every key of the registry is a valid IPv4 host:port
\* pair, whatever lines the sources hold.
C17_KeysAreHostPort ==
  \A p \in Protos : \A k \in KeySet(proxies[p]) : HostPort(k)

(***************************************************************************)
(* C18: the keys concurrent tasks write                                    *)
(***************************************************************************)
\* the keys the fetch_source task of source s assigns, given what it received
Writes(s, ended, got) ==
  IF ended[s] # "ok" THEN {}
  ELSE {Normalize(SplitLines(got[s])[i], ProtoOf(s)) : i \in
          {j \in 1..Len(SplitLines(got[s])) :
             LineOk(Normalize(SplitLines(got[s])[j], ProtoOf(s)))}}

\* C18 as stated: no two tasks that run concurrently write the same key of
\* the same protocol; for the fetch phase, no two fetch_source tasks do.
C18_NoKeyWrittenTwice ==
  \A s1, s2 \in SourceIds :
    s1 # s2 /\ ProtoOf(s1) = ProtoOf(s2) =>
      Writes(s1, fetched, text) \cap Writes(s2, fetched, text) = {}

\* one step of a run writes keys as the amended claim says
WriteStep(reg, reg2, ended2, got2, tk, tk2, ph, ph2) ==
  \* fetch phase: whatever the order of the tasks, the registry holds the
  \* keys written by the tasks that have ended, each pending, each once
  /\ ph2 \in {"fetch", "fetched"} =>
       \A p \in Protos :
         /\ IsPrefix(reg[p], reg2[p])
         /\ NoDuplicates(reg2[p])
         /\ Items(reg2[p]) =
              {[addr |-> k, exit |-> None] : k \in
                 UNION {Writes(s, ended2, got2) : s \in {x \in SourceIds : ProtoOf(x) = p}}}
  \* validation: an item changes only through the one task of its own key
  /\ ph = "check" =>
       /\ Cardinality(Ending(tk, tk2)) <= 1
       /\ \A p \in Protos :
            \A x \in (Items(reg[p]) \ Items(reg2[p])) \cup (Items(reg2[p]) \ Items(reg[p])) :
              <<p, x.addr>> \in Ending(tk, tk2)

\* C18 amended: no two check_proxy tasks write the same key: a task writes
\* only the key of its own candidate and no key has two tasks.  Two
\* fetch_source tasks of one protocol may write the same key, when both sources
\* list the address; each such write stores the pending value and leaves a key
\* that is present where it is, so the registry after the fetch phase holds the
\* same pending candidates whatever the order of the tasks.
C18_WritesDoNotInterfere ==
  [][WriteStep(proxies, proxies', fetched', text', task, task', phase, phase')]_vars

\* C18 witness: both http sources listed 2.1.1.1:80, both tasks wrote the
\* key, and the registry holds it once, pending.
C18_Witness ==
  /\ phase = "fetched"
  /\ "2.1.1.1:80" \in Writes("h1", fetched, text) \cap Writes("h2", fetched, text)
  /\ Cardinality({i \in 1..Len(proxies["http"]) :
                    proxies["http"][i] = [addr |-> "2.1.1.1:80", exit |-> None]}) = 1

(***************************************************************************)
(* C19: the validation terminates                                          *)
(***************************************************************************)
\* the registry of protocol p once the sources of p that answered 200 have
\* been read, source s having answered with body got[s]
Fetched(p, got) ==
  LET RECURSIVE Read(_, _)
      Read(d, ss) ==
        IF ss = {} THEN d
        ELSE LET s == CHOOSE x \in ss : TRUE
             IN Read(InsertLines(d, SplitLines(got[s]), p), ss \ {s})
  IN Read(<<>>, {s \in SourceIds : ProtoOf(s) = p /\ got[s] # ""})

\* fetch_all_sources has returned: one http source failed, the other two
\* sources answered, and the counts are stored
InitLive ==
  /\ MMDB \in BOOLEAN
  /\ \E b \in Bodies("s1") :
       text = [s \in SourceIds |->
                 CASE s = "h1" -> "" [] s = "h2" -> BodyB [] s = "s1" -> b]
  /\ fetched = [s \in SourceIds |-> IF s = "h1" THEN "error" ELSE "ok"]
  /\ proxies = [p \in Protos |-> Fetched(p, text)]
  /\ proxies_count = [p \in Protos |-> Snapshot(proxies[p])]
  /\ sem = MaxConnections
  /\ queue = <<>>
  /\ task = [t \in {} |-> "queued"]
  /\ warnings = 0
  /\ table = <<>>
  /\ fs = PriorFS
  /\ phase = "fetched"
  /\ err = "none"
  /\ geocall = NoCall

\* check_all_proxies alone
NextLive ==
  \/ CheckAllStart
  \/ Acquire
  \/ \E t \in DOMAIN task : Complete(t)
  \/ CheckAllDone

\* some probe is in flight: this is when Complete(t) is enabled for some t
ProbeInFlight == phase = "check" /\ \E t \in DOMAIN task : task[t] = "active"

\* a probe that was in flight has ended: the step is a Complete(t)
ProbeEnds == \E t \in DOMAIN task : task[t] = "active" /\ task'[t] # "active"

\* The validation under fair scheduling: the event loop runs a task that can
\* take a slot, gather returns once every task has ended, and a probe in
\* flight ends (its request is bounded by the timeout).  The last condition is
\* the weak fairness of \E t : Complete(t), written out.
SpecLive ==
  /\ InitLive
  /\ [][NextLive]_vars
  /\ WF_vars(Acquire)
  /\ WF_vars(CheckAllDone)
  /\ ([]<>(~ProbeInFlight) \/ []<><<ProbeEnds>>_vars)

\* C19: once check_all_proxies has started its tasks it completes: every
\* waiting task has acquired a slot and every probe has ended.
C19_ValidationTerminates ==
  (phase = "check") ~> (phase = "checked" /\ AllChecked)

\* C19 witness: the validation is complete although more candidates were
\* scheduled than there are slots, so some task had to wait for a slot.
C19_Witness ==
  /\ phase = "checked"
  /\ Cardinality(DOMAIN task) > MaxConnections
  /\ \A t \in DOMAIN task : task[t] \in Terminal

(***************************************************************************)
(* C20: sort_proxies reorders and nothing else                             *)
(***************************************************************************)
\* the lines of dir/name.txt in file system f (none when there is no file)
LinesOf(f, dir, name) ==
  IF f[dir] # None /\ name \in DOMAIN f[dir][1] THEN SplitLines(f[dir][1][name])
  ELSE <<>>

\* one step of a run keeps the survivors through the sort and to the files
ReorderStep(reg, reg2, ph, ph2, tbl2, f2) ==
  \* sort_proxies: the same protocols, the same items, none lost or doubled
  /\ ph = "summarized" /\ ph2 = "sorted" =>
       /\ DOMAIN reg2 = DOMAIN reg
       /\ \A p \in Protos :
            /\ Items(reg2[p]) = Items(reg[p])
            /\ Len(reg2[p]) = Len(reg[p])
            /\ NoDuplicates(reg2[p])
  \* save_proxies: as many lines in proxies/{proto}.txt as the summary counted
  /\ ph = "sorted" /\ ph2 = "done" =>
       \A i \in 1..Len(ProtoOrder) :
         tbl2[i].working = Len(LinesOf(f2, "proxies", ProtoOrder[i]))

\* C20: sort_proxies only reorders: for every protocol the set of (address,
\* exit address) items is the same before and after and the set of protocols
\* is unchanged, so the number of survivors shown in the summary is the number
\* of lines written to proxies/{proto}.txt.
C20_SortIsReordering ==
  [][ReorderStep(proxies, proxies', phase, phase', table', fs')]_vars

\* C20 witness: two survivors changed places in the sort, and the file holds
\* as many lines as the summary counted survivors.
C20_Witness ==
  /\ phase = "done"
  /\ DictKeys(proxies["http"]) = <<"2.1.1.1:80", "10.1.1.1:80">>
  /\ table[1].working = 2
  /\ Len(FileLines("proxies", "http")) = 2

====
